---- MODULE Spec2Model ----
(***************************************************************************)
(* A model of yeelib_rs: the Yeelight discovery client (src/src/lib.rs)    *)
(* and the device record with its command session (src/src/light.rs),     *)
(* together with the value types of src/src/fields.rs and src/src/req.rs.  *)
(*                                                                         *)
(* Text is modelled as a sequence of lexemes: every decimal digit, sign,   *)
(* blank and double quote that a parser or a substring search looks at is  *)
(* a lexeme of its own; a word (a method name, a JSON key) is one lexeme.  *)
(* A substring search is a search for a contiguous run of lexemes.         *)
(***************************************************************************)
EXTENDS Integers, Sequences, FiniteSets, TLC

(***************************************************************************)
(* Option and Result values, and the outcome of a call that panics.        *)
(***************************************************************************)
None == <<>>

Some(x) == <<x>>

Ok(v) == [tag |-> "Ok", val |-> v]

Err(e) == [tag |-> "Err", err |-> e]

Panic == [tag |-> "Panic"]

Unit == "()"

(***************************************************************************)
(* src/src/err.rs: the error kinds.                                        *)
(***************************************************************************)
ParseFieldFailed(field_name, source) ==
    [kind |-> "ParseFieldFailed", field_name |-> field_name, source |-> source]

FieldNotFound(field_name) == [kind |-> "FieldNotFound", field_name |-> field_name]

IoError(source) == [kind |-> "IoError", source |-> source]

MethodNotSupported(method_name) ==
    [kind |-> "MethodNotSupported", method_name |-> method_name]

InvalidValue(field_name, value) ==
    [kind |-> "InvalidValue", field_name |-> field_name, value |-> value]

ChangeFailed(message) == [kind |-> "ChangeFailed", message |-> message]

(***************************************************************************)
(* Text helpers: decimal formatting, substring search, integer parsing.    *)
(***************************************************************************)
DigitChars == <<"0", "1", "2", "3", "4", "5", "6", "7", "8", "9">>

IsDigit(c) == \E i \in 1..10 : DigitChars[i] = c

DigitVal(c) == (CHOOSE i \in 1..10 : DigitChars[i] = c) - 1

\* Display of an unsigned integer: its decimal digits, no leading zero.
RECURSIVE to_string(_)
to_string(n) ==
    IF n < 10 THEN <<DigitChars[n + 1]>>
    ELSE to_string(n \div 10) \o <<DigitChars[(n % 10) + 1]>>

\* str::contains: pat occurs in s as a contiguous run.
contains(s, pat) ==
    \E i \in 1..(Len(s) - Len(pat) + 1) : SubSeq(s, i, i + Len(pat) - 1) = pat

\* The digits of s read left to right into an accumulator that stops growing
\* once it has passed max (the checked multiply/add of the standard parser).
RECURSIVE accumulate(_, _, _)
accumulate(s, acc, max) ==
    IF s = <<>> THEN acc
    ELSE IF acc > max THEN acc
    ELSE accumulate(Tail(s), acc * 10 + DigitVal(Head(s)), max)

\* str::parse for an unsigned integer type whose largest value is max:
\* an optional leading "+", then one or more digits, no overflow.
parse_unsigned(s, max) ==
    LET digits == IF s # <<>> /\ Head(s) = "+" THEN Tail(s) ELSE s
    IN  IF s = <<>> THEN Err("Empty")
        ELSE IF digits = <<>> THEN Err("InvalidDigit")
        ELSE IF \E i \in 1..Len(digits) : ~IsDigit(digits[i]) THEN Err("InvalidDigit")
        ELSE IF accumulate(digits, 0, max) > max THEN Err("PosOverflow")
        ELSE Ok(accumulate(digits, 0, max))

U8MAX == 255

U16MAX == 65535

(***************************************************************************)
(* src/src/fields.rs                                                       *)
(***************************************************************************)
HEX_FFFFFF == 16777215

PowerStatus == {"On", "Off"}

\* A variant of flip both of whose arms yield Off.
flip_to_off(p) == "Off"

flip(p) == IF p = "Off" THEN "On" ELSE "Off"

\* Display for PowerStatus
power_to_string(p) == IF p = "Off" THEN <<"off">> ELSE <<"on">>

\* FromStr for PowerStatus
PowerStatus_from_str(s) ==
    IF s = <<"on">> THEN Ok("On")
    ELSE IF s = <<"off">> THEN Ok("Off")
    ELSE Err(ParseFieldFailed(<<"power_status">>, None))

\* FromStr for ColorMode
ColorMode_from_str(s) ==
    IF s = <<"1">> THEN Ok("Color")
    ELSE IF s = <<"2">> THEN Ok("ColorTemperature")
    ELSE IF s = <<"3">> THEN Ok("Hsv")
    ELSE Err(ParseFieldFailed(<<"color_mode">>, None))

Rgb_new(red, green, blue) == [red |-> red, green |-> green, blue |-> blue]

\* A variant of get_num that weighs green and blue the wrong way round.
get_num_swapped(rgb) == rgb.red * 65536 + rgb.blue * 256 + rgb.green

get_num(rgb) == rgb.red * 65536 + rgb.green * 256 + rgb.blue

\* u32 parse of a digit string, kept in two 16-bit limbs (hi * 65536 + lo) so
\* that no intermediate value leaves the range of the checker's integers;
\* hi > U16MAX stands for a value above u32::MAX.
RECURSIVE accumulate_u32(_, _, _)
accumulate_u32(s, hi, lo) ==
    IF s = <<>> \/ hi > U16MAX THEN [hi |-> hi, lo |-> lo]
    ELSE LET l == lo * 10 + DigitVal(Head(s))
         IN  accumulate_u32(Tail(s), hi * 10 + (l \div 65536), l % 65536)

parse_u32(s) ==
    LET digits == IF s # <<>> /\ Head(s) = "+" THEN Tail(s) ELSE s
    IN  IF s = <<>> THEN Err("Empty")
        ELSE IF digits = <<>> THEN Err("InvalidDigit")
        ELSE IF \E i \in 1..Len(digits) : ~IsDigit(digits[i]) THEN Err("InvalidDigit")
        ELSE IF accumulate_u32(digits, 0, 0).hi > U16MAX THEN Err("PosOverflow")
        ELSE Ok(accumulate_u32(digits, 0, 0))

\* A variant of FromStr for Rgb without the check against HEX_FFFFFF.
Rgb_from_str_unchecked(s) ==
    LET parsed == parse_u32(s)
        v == parsed.val
        val == (v.hi % 256) * 65536 + v.lo
        blue == val % 256
        green == ((val - blue) \div 256) % 256
        red == ((((val - blue) \div 256) - green) \div 256) % 256
    IN  IF parsed.tag = "Err" THEN Err(ParseFieldFailed(<<"rgb">>, Some(parsed.err)))
        ELSE Ok([red |-> red, green |-> green, blue |-> blue])

\* FromStr for Rgb
Rgb_from_str(s) ==
    LET parsed == parse_u32(s)
        v == parsed.val
        val == v.hi * 65536 + v.lo
        blue == val % 256
        green == ((val - blue) \div 256) % 256
        red == ((((val - blue) \div 256) - green) \div 256) % 256
    IN  IF parsed.tag = "Err" THEN Err(ParseFieldFailed(<<"rgb">>, Some(parsed.err)))
        ELSE IF v.hi > HEX_FFFFFF \div 65536 THEN Err(ParseFieldFailed(<<"rgb">>, None))
        ELSE Ok([red |-> red, green |-> green, blue |-> blue])

(***************************************************************************)
(* src/src/req.rs                                                          *)
(***************************************************************************)
\* Wide unsigned integers (u64, u128) are sequences of 16-bit limbs, the
\* least significant first.
limbs(n) == <<n % (U16MAX + 1), n \div (U16MAX + 1), 0, 0>>

\* x * k + carry for a small k and carry, one limb longer than x.
RECURSIVE mul_add(_, _, _)
mul_add(x, k, carry) ==
    IF x = <<>> THEN <<carry>>
    ELSE LET cur == Head(x) * k + carry
         IN  <<cur % (U16MAX + 1)>> \o mul_add(Tail(x), k, cur \div (U16MAX + 1))

\* x < y for wide integers of the same length
RECURSIVE less(_, _)
less(x, y) ==
    IF x = <<>> THEN FALSE
    ELSE IF x[Len(x)] # y[Len(y)] THEN x[Len(x)] < y[Len(y)]
    ELSE less(SubSeq(x, 1, Len(x) - 1), SubSeq(y, 1, Len(y) - 1))

\* x divided by ten, from limb i downwards with remainder rem carried in
RECURSIVE div10(_, _, _)
div10(x, i, rem) ==
    IF i = 0 THEN [q |-> x, r |-> rem]
    ELSE LET cur == rem * (U16MAX + 1) + x[i]
         IN  div10([x EXCEPT ![i] = cur \div 10], i - 1, cur % 10)

RECURSIVE u64_digits(_)
u64_digits(x) ==
    IF \A i \in DOMAIN x : x[i] = 0 THEN <<>>
    ELSE u64_digits(div10(x, Len(x), 0).q) \o <<DigitChars[div10(x, Len(x), 0).r + 1]>>

\* Display of a u64
u64_to_string(x) == IF u64_digits(x) = <<>> THEN <<"0">> ELSE u64_digits(x)

\* A Duration: whole seconds (u64) and the nanoseconds of the second begun.
Duration(secs, nanos) == [secs |-> secs, nanos |-> nanos]

\* Duration::from_millis, for a count below 2^31
from_millis(ms) == Duration(limbs(ms \div 1000), (ms % 1000) * 1000000)

\* Duration::as_millis: a u128, here of five limbs
as_millis(duration) == mul_add(duration.secs, 1000, duration.nanos \div 1000000)

\* PartialOrd for Duration: seconds first, then nanoseconds
Duration_lt(a, b) ==
    less(a.secs, b.secs) \/ (a.secs = b.secs /\ a.nanos < b.nanos)

\* `as u64` of a u128: the low 64 bits
as_u64(x) == SubSeq(x, 1, 4)

\* x > u64::MAX as u128
exceeds_u64(x) == \E i \in 5..Len(x) : x[i] # 0

Sudden == [kind |-> "Sudden", duration |-> from_millis(0)]

Transition_sudden == Sudden

\* A variant of Transition::smooth without the upper limit.
Transition_smooth_no_upper(duration) ==
    IF Duration_lt(duration, from_millis(30)) THEN None
    ELSE Some([kind |-> "Smooth", duration |-> duration])

Transition_smooth(duration) ==
    IF Duration_lt(duration, from_millis(30)) \/ exceeds_u64(as_millis(duration))
    THEN None
    ELSE Some([kind |-> "Smooth", duration |-> duration])

Transition_text(t) == IF t.kind = "Sudden" THEN "sudden" ELSE "smooth"

Transition_value(t) ==
    IF t.kind = "Sudden" THEN limbs(0) ELSE as_u64(as_millis(t.duration))

\* serde_json::json! of an integer, of a u64 and of a string, as JSON text.
json_num(n) == to_string(n)

json_u64(x) == u64_to_string(x)

json_str(s) == <<"\"">> \o s \o <<"\"">>

\* Req::new, with the id fastrand::u16 drew.
Req_new(id, method, params) == [id |-> id, method |-> method, params |-> params]

RECURSIVE join(_)
join(params) ==
    IF params = <<>> THEN <<>>
    ELSE IF Len(params) = 1 THEN Head(params)
    ELSE Head(params) \o <<",">> \o join(Tail(params))

\* serde_json::to_string of a Req: {"id":N,"method":"M","params":[...]}
Req_to_string(req) ==
    <<"{\"id\":">> \o to_string(req.id) \o <<",\"method\":">> \o json_str(<<req.method>>)
        \o <<",\"params\":[">> \o join(req.params) \o <<"]}">>

(***************************************************************************)
(* src/src/light.rs: building a record from advertisement headers.         *)
(***************************************************************************)
\* stringify! of a string literal keeps its quotes.
stringify(field) == <<"\"", field, "\"">>

\* get_field!, string arm
get_field(map, field) ==
    IF field \in DOMAIN map THEN Ok(map[field]) ELSE Err(FieldNotFound(stringify(field)))

\* get_field!, primitive arm, for an unsigned type with largest value max
get_field_prim(map, field, max) ==
    IF field \notin DOMAIN map THEN Err(FieldNotFound(stringify(field)))
    ELSE LET r == parse_unsigned(map[field], max)
         IN  IF r.tag = "Err" THEN Err(ParseFieldFailed(stringify(field), Some(r.err)))
             ELSE r

\* get_field!, custom FromStr arm: the type's own error is passed on.
get_field_power(map, field) ==
    IF field \notin DOMAIN map THEN Err(FieldNotFound(stringify(field)))
    ELSE PowerStatus_from_str(map[field])

get_field_color_mode(map, field) ==
    IF field \notin DOMAIN map THEN Err(FieldNotFound(stringify(field)))
    ELSE ColorMode_from_str(map[field])

get_field_rgb(map, field) ==
    IF field \notin DOMAIN map THEN Err(FieldNotFound(stringify(field)))
    ELSE Rgb_from_str(map[field])

\* str::split_whitespace, collected into a set
split_whitespace(s) == {s[i] : i \in 1..Len(s)} \ {" "}

\* The address literals the model's advertisements carry.
IPv4Literals == {"127.0.0.1", "192.168.1.20"}

IPv6Literals == {"[::1]"}

\* str::parse::<SocketAddr>: ip ":" port
SocketAddr_parse(s) ==
    LET port == SubSeq(s, 3, Len(s))
    IN  IF Len(s) < 3 \/ s[2] # ":" THEN Err("AddrParseError")
        ELSE IF s[1] \notin IPv4Literals \cup IPv6Literals THEN Err("AddrParseError")
        ELSE IF \E i \in 1..Len(port) : ~IsDigit(port[i]) THEN Err("AddrParseError")
        ELSE IF accumulate(port, 0, U16MAX) > U16MAX THEN Err("AddrParseError")
        ELSE Ok([kind |-> IF s[1] \in IPv4Literals THEN "V4" ELSE "V6",
                 ip |-> s[1], port |-> accumulate(port, 0, U16MAX)])

\* MATCH_IP, yeelight://(.*), group 1 of the leftmost match
MATCH_IP(s) ==
    IF \E i \in 1..Len(s) : s[i] = "yeelight://"
    THEN LET i == CHOOSE k \in 1..Len(s) :
                      s[k] = "yeelight://" /\ \A j \in 1..(k - 1) : s[j] # "yeelight://"
         IN  Some(SubSeq(s, i + 1, Len(s)))
    ELSE None

\* Light::from_fields. Each get_field! returns early on its error, in the
\* order of the source; a location that parses as an IPv6 address panics.
from_fields(fields) ==
    LET id == get_field(fields, "id")
        model == get_field(fields, "model")
        fw_ver == get_field_prim(fields, "fw_ver", U8MAX)
        power == get_field_power(fields, "power")
        support == get_field(fields, "support")
        bright == get_field_prim(fields, "bright", U8MAX)
        color_mode == get_field_color_mode(fields, "color_mode")
        ct == get_field_prim(fields, "ct", U16MAX)
        rgb == get_field_rgb(fields, "rgb")
        hue == get_field_prim(fields, "hue", U16MAX)
        sat == get_field_prim(fields, "sat", U8MAX)
        name == get_field(fields, "name")
        location == get_field(fields, "Location")
        m == MATCH_IP(location.val)
        captures ==
            IF m = None THEN Err(FieldNotFound(<<"Location">>))
            ELSE IF SocketAddr_parse(m[1]).tag = "Err"
            THEN Err(ParseFieldFailed(<<"Location">>, None))
            ELSE SocketAddr_parse(m[1])
    IN  IF id.tag = "Err" THEN id
        ELSE IF model.tag = "Err" THEN model
        ELSE IF fw_ver.tag = "Err" THEN fw_ver
        ELSE IF power.tag = "Err" THEN power
        ELSE IF support.tag = "Err" THEN support
        ELSE IF bright.tag = "Err" THEN bright
        ELSE IF color_mode.tag = "Err" THEN color_mode
        ELSE IF ct.tag = "Err" THEN ct
        ELSE IF rgb.tag = "Err" THEN rgb
        ELSE IF hue.tag = "Err" THEN hue
        ELSE IF sat.tag = "Err" THEN sat
        ELSE IF name.tag = "Err" THEN name
        ELSE IF location.tag = "Err" THEN location
        ELSE IF captures.tag = "Err" THEN captures
        ELSE IF captures.val.kind # "V4" THEN Panic
        ELSE Ok([location |-> [ip |-> captures.val.ip, port |-> captures.val.port],
                 id |-> id.val, model |-> model.val, fw_ver |-> fw_ver.val,
                 power |-> power.val, support |-> split_whitespace(support.val),
                 bright |-> bright.val, color_mode |-> color_mode.val, ct |-> ct.val,
                 rgb |-> rgb.val, hue |-> hue.val, sat |-> sat.val, name |-> name.val,
                 read |-> None, write |-> None])

\* A connected TcpStream: the peer it was opened to and which connection of
\* the run it is. try_clone yields a second handle to the same connection.
TcpStream(peer, serial) == [peer |-> peer, serial |-> serial]

\* A variant of init that reports success when the connection failed.
init_lenient(l, connect, try_clone, serial) ==
    IF l.read # None THEN [result |-> Ok(Unit), light |-> l]
    ELSE IF connect # "ok" THEN [result |-> Ok(Unit), light |-> l]
    ELSE IF try_clone # "ok" THEN [result |-> Err(IoError(try_clone)), light |-> l]
    ELSE [result |-> Ok(Unit),
          light |-> [l EXCEPT !.write = Some(TcpStream(l.location, serial)),
                              !.read = Some(TcpStream(l.location, serial))]]

\* A variant of init without the early return: it connects again when the
\* session is there.
init_always_connects(l, connect, try_clone, serial) ==
    IF connect # "ok" THEN [result |-> Err(IoError(connect)), light |-> l]
    ELSE IF try_clone # "ok" THEN [result |-> Err(IoError(try_clone)), light |-> l]
    ELSE [result |-> Ok(Unit),
          light |-> [l EXCEPT !.write = Some(TcpStream(l.location, serial)),
                              !.read = Some(TcpStream(l.location, serial))]]

\* A variant of init that hands the connection to the write half first and
\* duplicates the handle for the read half afterwards.
init_write_first(l, connect, try_clone, serial) ==
    IF l.read # None THEN [result |-> Ok(Unit), light |-> l]
    ELSE IF connect # "ok" THEN [result |-> Err(IoError(connect)), light |-> l]
    ELSE IF try_clone # "ok"
    THEN [result |-> Err(IoError(try_clone)),
          light |-> [l EXCEPT !.write = Some(TcpStream(l.location, serial))]]
    ELSE [result |-> Ok(Unit),
          light |-> [l EXCEPT !.write = Some(TcpStream(l.location, serial)),
                              !.read = Some(TcpStream(l.location, serial))]]

\* Light::init. connect and try_clone are the outcomes of the two system
\* calls, serial the number the new connection gets. Yields the result and
\* the record as the call leaves it.
init(l, connect, try_clone, serial) ==
    IF l.read # None THEN [result |-> Ok(Unit), light |-> l]
    ELSE IF connect # "ok" THEN [result |-> Err(IoError(connect)), light |-> l]
    ELSE IF try_clone # "ok" THEN [result |-> Err(IoError(try_clone)), light |-> l]
    ELSE [result |-> Ok(Unit),
          light |-> [l EXCEPT !.write = Some(TcpStream(l.location, serial)),
                              !.read = Some(TcpStream(l.location, serial))]]

\* Whether init attempts a connection at all.
init_connects(l) == l.read = None

\* A variant of Hash for Light that also writes the location.
hash_with_location(l) == <<l.id, l.location>>

\* Hash for Light writes the id's bytes alone.
hash(l) == l.id

\* A variant of equality that also compares the location.
eq_with_location(a, b) == a.id = b.id /\ a.location = b.location

\* PartialEq for Light
eq(a, b) == a.id = b.id

(***************************************************************************)
(* src/src/light.rs: the command session.                                  *)
(*                                                                         *)
(* The incoming half of the connection is a sequence of items the peer     *)
(* has produced and the record has not read yet: a line of text, the end   *)
(* of the stream (the peer closed), or a reset (a read that fails).        *)
(***************************************************************************)
CRLF == "\r\n"

Line(text) == [kind |-> "line", text |-> text]

Eof == [kind |-> "eof", text |-> <<>>]

Reset == [kind |-> "reset", text |-> <<>>]

Hang == [tag |-> "Hang"]

\* check_support!
check_support(l, method) ==
    IF method \notin l.support THEN Err(MethodNotSupported(method)) ELSE Ok(Unit)

\* MATCH_ERR_MSG, "message":"(.*)", group 0 of the leftmost match, or the
\* empty string. The dot matches no line feed, and the star is greedy: the
\* match runs to the last double quote of the line.
MSGKEY == "\"message\":\""

msg_ends(buf, i) ==
    {j \in (i + 1)..Len(buf) : buf[j] = "\"" /\ \A k \in i..j : buf[k] # CRLF}

MATCH_ERR_MSG(buf) ==
    LET starts == {i \in 1..Len(buf) : buf[i] = MSGKEY /\ msg_ends(buf, i) # {}}
        i0 == CHOOSE i \in starts : \A k \in starts : i <= k
        j0 == CHOOSE j \in msg_ends(buf, i0) : \A k \in msg_ends(buf, i0) : k <= j
    IN  IF starts = {} THEN <<>> ELSE SubSeq(buf, i0, j0)

\* The loop of send_req: read_line appends the next line to buf until buf
\* contains rand_val. At the end of the stream read_line returns Ok(0) and buf
\* stays as it is, so the loop goes on for ever; with nothing to read and the
\* connection open, read_line blocks.
RECURSIVE read_lines(_, _, _, _)
read_lines(buf, stream, rand_val, n) ==
    IF contains(buf, rand_val)
    THEN [status |-> "matched", buf |-> buf, rest |-> stream, reads |-> n]
    ELSE IF stream = <<>>
    THEN [status |-> "blocked", buf |-> buf, rest |-> stream, reads |-> n]
    ELSE IF Head(stream).kind = "eof"
    THEN [status |-> "spin", buf |-> buf, rest |-> stream, reads |-> n + 1]
    ELSE IF Head(stream).kind = "reset"
    THEN [status |-> "io", buf |-> buf, rest |-> stream, reads |-> n + 1]
    ELSE read_lines(buf \o Head(stream).text, Tail(stream), rand_val, n + 1)

\* What a call leaves behind when it does not reach the session.
no_io(result, l, stream) ==
    [result |-> result, light |-> l, wrote |-> <<>>, stream |-> stream,
     reads |-> 0, buf |-> <<>>]

\* What the record can read once the peer has reacted with script: nothing
\* more arrives on a connection that has ended.
arrive(stream, script) ==
    IF stream # <<>> /\ stream[Len(stream)].kind \in {"eof", "reset"} THEN stream
    ELSE stream \o script

\* A variant of send_req that does not insist on the two halves being there.
send_req_unguarded(l, req, stream, x) ==
    LET rand_val == to_string(req.id)
        json == Req_to_string(req) \o <<CRLF>>
        r == read_lines(<<>>, arrive(stream, x.script), rand_val, 0)
    IN  IF x.io # "ok" THEN no_io(Err(IoError(x.io)), l, stream)
        ELSE [result |->
                  IF r.status = "matched"
                  THEN IF contains(r.buf, <<"error">>)
                       THEN Err(ChangeFailed(MATCH_ERR_MSG(r.buf)))
                       ELSE Ok(Unit)
                  ELSE IF r.status = "io" THEN Err(IoError("read_line"))
                  ELSE Hang,
              light |-> l, wrote |-> <<json>>, stream |-> r.rest,
              reads |-> r.reads, buf |-> r.buf]

\* Light::send_req. x is what the surroundings contribute to the call:
\* x.io, which of write_all and flush fails, if any, and x.script, the items
\* the peer produces once the request has reached it.
send_req(l, req, stream, x) ==
    LET rand_val == to_string(req.id)
        json == Req_to_string(req) \o <<CRLF>>
        r == read_lines(<<>>, arrive(stream, x.script), rand_val, 0)
    IN  IF l.read = None \/ l.write = None THEN no_io(Panic, l, stream)
        ELSE IF x.io # "ok" THEN no_io(Err(IoError(x.io)), l, stream)
        ELSE [result |->
                  IF r.status = "matched"
                  THEN IF contains(r.buf, <<"error">>)
                       THEN Err(ChangeFailed(MATCH_ERR_MSG(r.buf)))
                       ELSE Ok(Unit)
                  ELSE IF r.status = "io" THEN Err(IoError("read_line"))
                  ELSE Hang,
              light |-> l, wrote |-> <<json>>, stream |-> r.rest,
              reads |-> r.reads, buf |-> r.buf]

\* A variant of the tail that assigns the shadow before looking at the result.
then_assign_always(sent, updated) ==
    [sent EXCEPT !.light = updated]

\* The tail of every command: the shadow is assigned when send_req returned Ok.
then_assign(sent, updated) ==
    IF sent.result = Ok(Unit) THEN [sent EXCEPT !.light = updated] ELSE sent

\* The transitions callers pass to the commands.
Transitions == {Sudden} \cup {t[1] : t \in {Transition_smooth(from_millis(500))}}

\* json! of transition.text() and transition.value()
text_and_value(transition) ==
    <<json_str(<<Transition_text(transition)>>), json_u64(Transition_value(transition))>>

\* The same for the transitions of the model (worked out once).
KnownParams == [t \in Transitions |-> text_and_value(t)]

transition_params(transition) ==
    IF transition \in Transitions THEN KnownParams[transition]
    ELSE text_and_value(transition)

\* A variant of set_ct_abx whose range leaves out the upper end.
set_ct_abx_open_end(l, temperature, transition, stream, x) ==
    LET req == Req_new(x.id, "set_ct_abx",
                       <<json_num(temperature)>> \o transition_params(transition))
    IN  IF check_support(l, "set_ct_abx").tag = "Err"
        THEN no_io(check_support(l, "set_ct_abx"), l, stream)
        ELSE IF temperature \notin 2700..6499
        THEN no_io(Err(InvalidValue(<<"ct">>, to_string(temperature))), l, stream)
        ELSE then_assign(send_req(l, req, stream, x), [l EXCEPT !.ct = temperature])

set_ct_abx(l, temperature, transition, stream, x) ==
    LET req == Req_new(x.id, "set_ct_abx",
                       <<json_num(temperature)>> \o transition_params(transition))
    IN  IF check_support(l, "set_ct_abx").tag = "Err"
        THEN no_io(check_support(l, "set_ct_abx"), l, stream)
        ELSE IF temperature \notin 2700..6500
        THEN no_io(Err(InvalidValue(<<"ct">>, to_string(temperature))), l, stream)
        ELSE then_assign(send_req(l, req, stream, x), [l EXCEPT !.ct = temperature])

\* A variant of set_rgb that also switches the colour mode of the shadow.
set_rgb_and_mode(l, rgb, transition, stream, x) ==
    LET req == Req_new(x.id, "set_rgb",
                       <<json_num(get_num(rgb))>> \o transition_params(transition))
    IN  IF check_support(l, "set_rgb").tag = "Err"
        THEN no_io(check_support(l, "set_rgb"), l, stream)
        ELSE then_assign(send_req(l, req, stream, x),
                         [l EXCEPT !.rgb = rgb, !.color_mode = "Color"])

set_rgb(l, rgb, transition, stream, x) ==
    LET req == Req_new(x.id, "set_rgb",
                       <<json_num(get_num(rgb))>> \o transition_params(transition))
    IN  IF check_support(l, "set_rgb").tag = "Err"
        THEN no_io(check_support(l, "set_rgb"), l, stream)
        ELSE then_assign(send_req(l, req, stream, x), [l EXCEPT !.rgb = rgb])

set_bright(l, brightness, transition, stream, x) ==
    LET req == Req_new(x.id, "set_bright",
                       <<json_num(brightness)>> \o transition_params(transition))
    IN  IF check_support(l, "set_bright").tag = "Err"
        THEN no_io(check_support(l, "set_bright"), l, stream)
        ELSE IF brightness \notin 1..100
        THEN no_io(Err(InvalidValue(<<"bright">>, to_string(brightness))), l, stream)
        ELSE then_assign(send_req(l, req, stream, x), [l EXCEPT !.bright = brightness])

\* A variant of set_hsv that assigns the hue and forgets the saturation.
set_hsv_hue_only(l, hue, sat, transition, stream, x) ==
    LET req == Req_new(x.id, "set_hsv",
                       <<json_num(hue), json_num(sat)>> \o transition_params(transition))
    IN  IF hue \notin 0..359
        THEN no_io(Err(InvalidValue(<<"hue">>, to_string(hue))), l, stream)
        ELSE IF sat \notin 0..100
        THEN no_io(Err(InvalidValue(<<"sat">>, to_string(sat))), l, stream)
        ELSE then_assign(send_req(l, req, stream, x), [l EXCEPT !.hue = hue])

\* The result of check_support! is dropped here: the line has no `?`.
set_hsv(l, hue, sat, transition, stream, x) ==
    LET dropped == check_support(l, "set_hsv")
        req == Req_new(x.id, "set_hsv",
                       <<json_num(hue), json_num(sat)>> \o transition_params(transition))
    IN  IF hue \notin 0..359
        THEN no_io(Err(InvalidValue(<<"hue">>, to_string(hue))), l, stream)
        ELSE IF sat \notin 0..100
        THEN no_io(Err(InvalidValue(<<"sat">>, to_string(sat))), l, stream)
        ELSE then_assign(send_req(l, req, stream, x), [l EXCEPT !.hue = hue, !.sat = sat])

\* The result of check_support! is dropped here: the line has no `?`.
set_power(l, power, transition, stream, x) ==
    LET dropped == check_support(l, "set_power")
        req == Req_new(x.id, "set_power",
                       <<json_str(power_to_string(power))>> \o transition_params(transition))
    IN  then_assign(send_req(l, req, stream, x), [l EXCEPT !.power = power])

toggle(l, stream, x) ==
    LET req == Req_new(x.id, "toggle", <<>>)
    IN  IF check_support(l, "toggle").tag = "Err"
        THEN no_io(check_support(l, "toggle"), l, stream)
        ELSE then_assign(send_req(l, req, stream, x), [l EXCEPT !.power = flip(l.power)])

(***************************************************************************)
(* The surroundings: advertisements, what callers pass, what a bulb sends. *)
(***************************************************************************)
\* The header list of a well-formed advertisement (the headers and values of
\* the tests in src/src/lib.rs), for a device id, a support header and a
\* location.
AdvertHeaders(id, support, location) ==
    <<<<"Cache-Control", <<"max-age=3600">>>>, <<"Date", <<>>>>, <<"Ext", <<>>>>,
      <<"Location", location>>, <<"Server", <<"POSIX UPnP/1.0 YGLC/1">>>>,
      <<"id", <<id>>>>, <<"model", <<"ceiling3">>>>, <<"fw_ver", <<"2", "0">>>>,
      <<"support", support>>, <<"power", <<"on">>>>, <<"bright", <<"4", "0">>>>,
      <<"color_mode", <<"2">>>>, <<"ct", <<"3", "3", "0", "0">>>>, <<"rgb", <<"2">>>>,
      <<"hue", <<"4">>>>, <<"sat", <<"1", "0", "0">>>>, <<"name", <<"light_one">>>>>>

\* Iterator::collect into a HashMap: a later pair replaces an earlier one
\* with the same key.
collect(hs) ==
    [n \in {hs[i][1] : i \in DOMAIN hs} |->
        hs[CHOOSE i \in DOMAIN hs :
               hs[i][1] = n /\ \A j \in DOMAIN hs : hs[j][1] = n => j <= i][2]]

Advert(id, support, location) == collect(AdvertHeaders(id, support, location))

SupportAll ==
    <<"get_prop", " ", "set_ct_abx", " ", "set_rgb", " ", "set_bright", " ",
      "set_hsv", " ", "set_power", " ", "toggle">>

SupportFew == <<"get_prop", " ", "cron_get", " ", "adjust_bright">>

Loc1 == <<"yeelight://", "127.0.0.1", ":", "9", "8", "8", "9">>

Loc2 == <<"yeelight://", "192.168.1.20", ":", "5", "5", "4", "4", "3">>

\* The advertisements a session is built from.
SessionAdverts == {Advert("0x1", SupportAll, Loc1), Advert("0x2", SupportFew, Loc2)}

\* Lines a bulb sends: the reply to a request, and props notifications.
ReplyOk(id) == Line(<<"{\"id\":">> \o to_string(id) \o <<",\"result\":[\"ok\"]}", CRLF>>)

ReplyErr(id) ==
    Line(<<"{\"id\":">> \o to_string(id)
         \o <<",\"", "error", "\":{\"code\":-", "1", ",", MSGKEY,
              "client quota exceeded", "\"", "}}", CRLF>>)

NotifPower == Line(<<"{\"method\":\"props\",\"params\":{\"power\":\"on\"}}", CRLF>>)

NotifBright ==
    Line(<<"{\"method\":\"props\",\"params\":{\"bright\":", "1", "2", "}}", CRLF>>)

NotifName ==
    Line(<<"{\"method\":\"props\",\"params\":{\"name\":\"", "error", "\"}}", CRLF>>)

Notifications == {NotifPower, NotifBright, NotifName}

\* Request ids fastrand::u16 may draw.
ReqIds == {7, 12}

\* What a bulb may do on a request with this id: at most one notification,
\* then its reply, or the end of the stream, or a reset.
Scripts(id) ==
    {pre \o post : pre \in {<<>>} \cup {<<n>> : n \in Notifications},
                   post \in {<<ReplyOk(id)>>, <<ReplyErr(id)>>, <<Eof>>, <<Reset>>}}

\* A call's surroundings: the id drawn, the I/O outcome, the bulb's script.
AllEnvs ==
    UNION {{[id |-> id, io |-> "ok", script |-> sc] : sc \in Scripts(id)} : id \in ReqIds}
        \cup {[id |-> id, io |-> io, script |-> <<>>] :
                  id \in ReqIds, io \in {"write_all", "flush"}}

\* The same with one id and a bulb that sends no notification.
PlainEnvs ==
    {[id |-> 7, io |-> "ok", script |-> sc] : sc \in {<<ReplyOk(7)>>, <<ReplyErr(7)>>, <<Reset>>}}
        \cup {[id |-> 7, io |-> "flush", script |-> <<>>]}

\* Arguments callers pass: the ends of each range and their neighbours.
CtArgs == {2699, 2700, 6500, 6501}

BrightArgs == {0, 1, 100, 101}

HsvArgs == {<<0, 0>>, <<359, 100>>, <<360, 0>>, <<0, 101>>}

RgbArgs == {Rgb_new(10, 10, 10), Rgb_new(255, 0, 128)}

(***************************************************************************)
(* State.                                                                  *)
(***************************************************************************)
VARIABLES
    light,      \* the record a caller holds: None, or Some(record)
    stream,     \* what the record's connection has delivered and nobody read
    lpc,        \* the caller's thread: "ready", "hung" or "panicked"
    call,       \* the last call on the record: its inputs and what it did
    ncalls,     \* commands issued so far
    tcp,        \* the TCP connections attempted so far, in order
    fpc,        \* find_lights: "idle", "polling", "returned" or "panicked"
    timeout,    \* the timeout of the running find_lights call
    elapsed,    \* now.elapsed() of the running call, in clock ticks
    lights,     \* the HashSet the running call collects into
    found,      \* None, or Some(the Vec the last call returned)
    probes,     \* the datagrams the client has sent, in order
    heard,      \* what the running call received: datagram and TCP outcomes
    nfinds,     \* find_lights calls started so far
    recvd,      \* datagrams received so far
    earlier     \* the ids of the records earlier find_lights calls returned

lightVars == <<light, stream, lpc, call, ncalls>>

findVars == <<fpc, timeout, elapsed, lights, found, probes, heard, nfinds, recvd,
               earlier>>

vars == <<light, stream, lpc, call, ncalls, tcp,
          fpc, timeout, elapsed, lights, found, probes, heard, nfinds, recvd, earlier>>

NoCall == [op |-> "none"]

MaxCalls == 2

MaxConnects == 2

Init ==
    /\ light = None
    /\ stream = <<>>
    /\ lpc = "ready"
    /\ call = NoCall
    /\ ncalls = 0
    /\ tcp = <<>>
    /\ fpc = "idle"
    /\ timeout = 0
    /\ elapsed = 0
    /\ lights = {}
    /\ found = None
    /\ probes = <<>>
    /\ heard = <<>>
    /\ nfinds = 0
    /\ recvd = 0
    /\ earlier = {}

(***************************************************************************)
(* Actions on one record.                                                  *)
(***************************************************************************)
\* A caller builds a record from an advertisement's headers.
FromFields(adverts) ==
    /\ light = None
    /\ lpc = "ready"
    /\ \E fields \in adverts :
           LET r == from_fields(fields)
           IN  /\ light' = IF r.tag = "Ok" THEN Some(r.val) ELSE None
               /\ lpc' = IF r.tag = "Panic" THEN "panicked" ELSE "ready"
               /\ call' = [op |-> "from_fields", args |-> <<fields>>, result |-> r]
    /\ UNCHANGED <<stream, ncalls, tcp, findVars>>

\* The record's session is opened: init.
Open ==
    /\ light # None
    /\ lpc = "ready"
    /\ call.op \in {"from_fields", "init"}
    /\ init_connects(light[1]) => Len(tcp) < MaxConnects
    /\ \E connect \in {"ok", "ConnectionRefused"}, try_clone \in {"ok", "EMFILE"} :
           LET r == init(light[1], connect, try_clone, Len(tcp) + 1)
           IN  /\ connect = "ok" \/ try_clone = "ok"
               /\ light' = Some(r.light)
               /\ tcp' = IF init_connects(light[1])
                         THEN Append(tcp, [peer |-> light[1].location, ok |-> connect = "ok"])
                         ELSE tcp
               /\ call' = [op |-> "init", args |-> <<connect, try_clone>>,
                           result |-> r.result, before |-> light[1]]
    /\ UNCHANGED <<stream, lpc, ncalls, findVars>>

\* A command has run: out is what it returned and left behind.
Apply(op, args, x, out) ==
    /\ light' = Some(out.light)
    /\ stream' = out.stream
    /\ lpc' = IF out.result.tag = "Panic" THEN "panicked"
              ELSE IF out.result.tag = "Hang" THEN "hung"
              ELSE "ready"
    /\ call' = [op |-> op, args |-> args, x |-> x, result |-> out.result,
                wrote |-> out.wrote, reads |-> out.reads, buf |-> out.buf,
                before |-> light[1], pending |-> stream]
    /\ ncalls' = ncalls + 1
    /\ UNCHANGED <<tcp, findVars>>

CanCall == light # None /\ lpc = "ready" /\ ncalls < MaxCalls

SetCtAbx(argset, envs) ==
    /\ CanCall
    /\ \E temperature \in argset, t \in Transitions, x \in envs :
           Apply("set_ct_abx", <<temperature, t>>, x,
                 set_ct_abx(light[1], temperature, t, stream, x))

SetRgb(argset, envs) ==
    /\ CanCall
    /\ \E rgb \in argset, t \in Transitions, x \in envs :
           Apply("set_rgb", <<rgb, t>>, x, set_rgb(light[1], rgb, t, stream, x))

SetBright(argset, envs) ==
    /\ CanCall
    /\ \E brightness \in argset, t \in Transitions, x \in envs :
           Apply("set_bright", <<brightness, t>>, x,
                 set_bright(light[1], brightness, t, stream, x))

SetHsv(argset, envs) ==
    /\ CanCall
    /\ \E hs \in argset, t \in Transitions, x \in envs :
           Apply("set_hsv", <<hs[1], hs[2], t>>, x,
                 set_hsv(light[1], hs[1], hs[2], t, stream, x))

SetPower(argset, envs) ==
    /\ CanCall
    /\ \E power \in argset, t \in Transitions, x \in envs :
           Apply("set_power", <<power, t>>, x, set_power(light[1], power, t, stream, x))

Toggle(envs) ==
    /\ CanCall
    /\ \E x \in envs : Apply("toggle", <<>>, x, toggle(light[1], stream, x))

\* Every command with the arguments at and around the ends of its range, on
\* a bulb that answers each request at once.
NextCommands ==
    \/ FromFields(SessionAdverts)
    \/ Open
    \/ SetCtAbx(CtArgs, PlainEnvs)
    \/ SetRgb(RgbArgs, PlainEnvs)
    \/ SetBright(BrightArgs, PlainEnvs)
    \/ SetHsv(HsvArgs, PlainEnvs)
    \/ SetPower(PowerStatus, PlainEnvs)
    \/ Toggle(PlainEnvs)

SpecCommands == Init /\ [][NextCommands]_vars

\* Two commands with fixed arguments, on a bulb that may send a notification
\* before its reply, close the connection, or fail the request.
NextSession ==
    \/ FromFields(SessionAdverts)
    \/ Open
    \/ SetBright({50}, AllEnvs)
    \/ Toggle(AllEnvs)

SpecSession == Init /\ [][NextSession]_vars

\* An iteration of the loop of send_req at the end of the stream: read_line
\* returns Ok(0) and appends nothing, buf is as it was and the loop condition
\* is as true as before.
ReadAtEof ==
    /\ lpc = "hung"
    /\ stream # <<>>
    /\ Head(stream).kind = "eof"
    /\ ~contains(call.buf, to_string(call.x.id))
    /\ UNCHANGED vars

NextSessionLive ==
    \/ NextSession
    \/ ReadAtEof

\* The same with the scheduling send_req relies on: the thread in the loop
\* goes on to the next iteration.
SpecSessionFair == Init /\ [][NextSessionLive]_vars /\ WF_vars(ReadAtEof)

(***************************************************************************)
(* src/src/lib.rs: the discovery client.                                   *)
(***************************************************************************)
MULTICAST_PORT == 1982

multicast_addr == [ip |-> "239.255.255.250", port |-> MULTICAST_PORT]

SEARCH_MSG ==
    <<"M-SEARCH * HTTP/1.1", CRLF, "HOST: 239.255.255.250:1982", CRLF,
      "MAN: \"ssdp:discover\"", CRLF, "ST: wifi_bulb">>

\* The length of the header array handed to httparse.
MaxHeaders == 17

\* A received datagram: an HTTP response with its header list, or bytes
\* that are no HTTP response.
Response(hs) == [kind |-> "response", headers |-> hs]

Garbage == [kind |-> "garbage", headers |-> <<>>]

\* httparse::Response::parse
Response_parse(d) ==
    IF d.kind # "response" THEN Err("httparse::Error")
    ELSE IF Len(d.headers) > MaxHeaders THEN Err("TooManyHeaders")
    ELSE Ok(d.headers)

\* HashSet<Light>: membership and insertion go by hash and eq.
HashSet_contains(set, l) == \E y \in set : hash(y) = hash(l) /\ eq(y, l)

HashSet_insert(set, l) == IF HashSet_contains(set, l) THEN set ELSE set \cup {l}

\* HashSet::into_iter().collect(): the elements in some order.
into_vec(set) ==
    {v \in [1..Cardinality(set) -> set] : \A i, j \in DOMAIN v : v[i] = v[j] => i = j}

\* The body of the loop of find_lights for a received datagram d, in two
\* parts. First the datagram is parsed and a record is built from its
\* headers: candidate yields Panic where an unwrap or from_fields panics,
\* else the result of from_fields.
candidate(d) ==
    LET res == Response_parse(d)
    IN  IF res.tag = "Err" THEN Panic ELSE from_fields(collect(res.val))

\* A variant of the second part that puts the record into the collector
\* whether its session opened or not.
on_datagram_insert_always(set, new_light, connect, try_clone, serial) ==
    LET opened == init(new_light.val, connect, try_clone, serial)
    IN  IF new_light.tag = "Panic"
        THEN [status |-> "panic", lights |-> set, dialed |-> FALSE]
        ELSE IF new_light.tag = "Err"
        THEN [status |-> "continue", lights |-> set, dialed |-> FALSE]
        ELSE IF HashSet_contains(set, new_light.val)
        THEN [status |-> "continue", lights |-> set, dialed |-> FALSE]
        ELSE [status |-> "continue", lights |-> HashSet_insert(set, opened.light),
              dialed |-> TRUE]

\* A variant of the second part that opens the session before it looks the
\* record up.
on_datagram_no_dedup(set, new_light, connect, try_clone, serial) ==
    LET opened == init(new_light.val, connect, try_clone, serial)
    IN  IF new_light.tag = "Panic"
        THEN [status |-> "panic", lights |-> set, dialed |-> FALSE]
        ELSE IF new_light.tag = "Err"
        THEN [status |-> "continue", lights |-> set, dialed |-> FALSE]
        ELSE IF opened.result.tag = "Err"
        THEN [status |-> "continue", lights |-> set, dialed |-> TRUE]
        ELSE [status |-> "continue", lights |-> HashSet_insert(set, opened.light),
              dialed |-> TRUE]

\* Then the record is looked up, opened and inserted. connect and try_clone
\* are the outcomes of the system calls of init, should it reach them.
\* Yields whether the call goes on or panics, the collector, and whether a
\* connection was attempted.
on_datagram(set, new_light, connect, try_clone, serial) ==
    LET opened == init(new_light.val, connect, try_clone, serial)
    IN  IF new_light.tag = "Panic"
        THEN [status |-> "panic", lights |-> set, dialed |-> FALSE]
        ELSE IF new_light.tag = "Err"
        THEN [status |-> "continue", lights |-> set, dialed |-> FALSE]
        ELSE IF HashSet_contains(set, new_light.val)
        THEN [status |-> "continue", lights |-> set, dialed |-> FALSE]
        ELSE IF opened.result.tag = "Err"
        THEN [status |-> "continue", lights |-> set, dialed |-> TRUE]
        ELSE [status |-> "continue", lights |-> HashSet_insert(set, opened.light),
              dialed |-> TRUE]

\* The datagrams the model's network delivers.
remove_header(hs, name) == SelectSeq(hs, LAMBDA h : h[1] # name)

put_header(hs, name, value) ==
    [i \in DOMAIN hs |-> IF hs[i][1] = name THEN <<name, value>> ELSE hs[i]]

Loc6 == <<"yeelight://", "[::1]", ":", "5", "5", "4", "4", "3">>

WellFormed == {"A@1", "A@2", "B@2"}

DatagramNames ==
    WellFormed \cup {"MissingHeader", "BadField", "Ipv6Location", "TooManyHeaders", "Garbage"}

Datagram(name) ==
    CASE name = "A@1" -> Response(AdvertHeaders("0x1", SupportAll, Loc1))
      [] name = "A@2" -> Response(AdvertHeaders("0x1", SupportAll, Loc2))
      [] name = "B@2" -> Response(AdvertHeaders("0x2", SupportFew, Loc2))
      [] name = "MissingHeader" ->
             Response(remove_header(AdvertHeaders("0x3", SupportAll, Loc1), "color_mode"))
      [] name = "BadField" ->
             Response(put_header(AdvertHeaders("0x3", SupportAll, Loc1), "bright", <<"x">>))
      [] name = "Ipv6Location" -> Response(AdvertHeaders("0x3", SupportAll, Loc6))
      [] name = "TooManyHeaders" ->
             Response(Append(AdvertHeaders("0x3", SupportAll, Loc1), <<"X-Extra", <<"1">>>>))
      [] name = "Garbage" -> Garbage

\* What parsing makes of each datagram (worked out once).
Candidates == [name \in DatagramNames |-> candidate(Datagram(name))]

Timeouts == {0, 1}

MaxFinds == 2

MaxDatagrams == 3

\* The ids of the records of a returned Vec, if any.
ids(vec) == IF vec = None THEN {} ELSE {vec[1][i].id : i \in DOMAIN vec[1]}

\* A variant of the start of a call in which the collector outlives the call.
FindStart_shared_collector ==
    /\ fpc \in {"idle", "returned"}
    /\ nfinds < MaxFinds
    /\ \E t \in Timeouts, send_to \in {"ok", "err"} :
           /\ timeout' = t
           /\ fpc' = IF send_to = "ok" THEN "polling" ELSE "panicked"
           /\ probes' = IF send_to = "ok"
                        THEN Append(probes, [msg |-> SEARCH_MSG, to |-> multicast_addr])
                        ELSE probes
    /\ nfinds' = nfinds + 1
    /\ elapsed' = 0
    /\ lights' = lights
    /\ heard' = <<>>
    /\ found' = None
    /\ earlier' = earlier \cup ids(found)
    /\ UNCHANGED <<lightVars, tcp, recvd>>

\* find_lights is called: the probe is sent, the collector and the clock
\* start. A failed send_to panics in unwrap.
FindStart ==
    /\ fpc \in {"idle", "returned"}
    /\ nfinds < MaxFinds
    /\ \E t \in Timeouts, send_to \in {"ok", "err"} :
           /\ timeout' = t
           /\ fpc' = IF send_to = "ok" THEN "polling" ELSE "panicked"
           /\ probes' = IF send_to = "ok"
                        THEN Append(probes, [msg |-> SEARCH_MSG, to |-> multicast_addr])
                        ELSE probes
    /\ nfinds' = nfinds + 1
    /\ elapsed' = 0
    /\ lights' = {}
    /\ heard' = <<>>
    /\ found' = None
    /\ earlier' = earlier \cup ids(found)
    /\ UNCHANGED <<lightVars, tcp, recvd>>

\* A variant of the idle iteration that sends the probe again.
FindWouldBlock_reprobe ==
    /\ fpc = "polling"
    /\ elapsed < timeout
    /\ Len(probes) <= MaxFinds
    /\ probes' = Append(probes, [msg |-> SEARCH_MSG, to |-> multicast_addr])
    /\ UNCHANGED <<lightVars, tcp, fpc, timeout, elapsed, lights, found, heard, nfinds,
                   recvd, earlier>>

\* An iteration in which recv_from returns an error (nothing to read).
FindWouldBlock ==
    /\ fpc = "polling"
    /\ elapsed < timeout
    /\ UNCHANGED vars

\* An iteration in which recv_from returns a datagram.
FindRecv ==
    /\ fpc = "polling"
    /\ elapsed < timeout
    /\ recvd < MaxDatagrams
    /\ \E name \in DatagramNames :
           LET new_light == Candidates[name]
           IN  \E connect \in {"ok", "ConnectionRefused"}, try_clone \in {"ok", "EMFILE"} :
                   LET out == on_datagram(lights, new_light, connect, try_clone,
                                          Len(tcp) + 1)
                   IN  /\ connect = "ok" \/ try_clone = "ok"
                       /\ out.dialed \/ (connect = "ok" /\ try_clone = "ok")
                       /\ fpc' = IF out.status = "panic" THEN "panicked" ELSE "polling"
                       /\ lights' = out.lights
                       /\ tcp' = IF out.dialed
                                 THEN Append(tcp, [peer |-> new_light.val.location,
                                                   ok |-> connect = "ok"])
                                 ELSE tcp
                       /\ heard' = Append(heard,
                                          [dgram |-> name,
                                           dial |-> IF out.dialed
                                                    THEN <<connect, try_clone>>
                                                    ELSE <<>>])
    /\ recvd' = recvd + 1
    /\ UNCHANGED <<lightVars, timeout, elapsed, found, probes, nfinds, earlier>>

\* The clock advances.
Tick ==
    /\ fpc = "polling"
    /\ elapsed < timeout
    /\ elapsed' = elapsed + 1
    /\ UNCHANGED <<lightVars, tcp, fpc, timeout, lights, found, probes, heard, nfinds,
                   recvd, earlier>>

\* The loop ends and the collector is returned as a Vec.
FindReturn ==
    /\ fpc = "polling"
    /\ ~(elapsed < timeout)
    /\ \E v \in into_vec(lights) : found' = Some(v)
    /\ fpc' = "returned"
    /\ UNCHANGED <<lightVars, tcp, timeout, elapsed, lights, probes, heard, nfinds, recvd,
                   earlier>>

NextFind ==
    \/ FindStart
    \/ FindWouldBlock
    \/ FindRecv
    \/ Tick
    \/ FindReturn

SpecFind == Init /\ [][NextFind]_vars

\* The same with the scheduling find_lights relies on: the clock advances
\* (Instant::elapsed grows while the loop runs), and the thread goes on to
\* leave the loop and return once the loop condition is false.
SpecFindFair == Init /\ [][NextFind]_vars /\ WF_vars(Tick) /\ WF_vars(FindReturn)

(***************************************************************************)
(* Building records from header maps of every shape.                       *)
(***************************************************************************)
\* The headers from_fields requires, in the order it looks them up.
Required ==
    <<"id", "model", "fw_ver", "power", "support", "bright", "color_mode", "ct", "rgb",
      "hue", "sat", "name", "Location">>

\* The headers whose values from_fields parses into a number or an enum.
Parsed == {"fw_ver", "power", "bright", "color_mode", "ct", "rgb", "hue", "sat"}

\* Well-formed header lists.
GoodHeaders ==
    {AdvertHeaders("0x1", SupportAll, Loc1), AdvertHeaders("0x2", SupportFew, Loc2),
     AdvertHeaders("0x3", SupportFew, Loc1)}

\* Values that do not parse as the header's type: no digits, empty, signed,
\* fractional, one past the type's (or the field's) largest value, a word
\* that is no variant.
BadValues(name) ==
    CASE name \in {"fw_ver", "bright", "sat"} ->
             {<<"x">>, <<>>, <<"-", "1">>, <<"2", "5", "6">>}
      [] name \in {"ct", "hue"} ->
             {<<"x">>, <<>>, <<"-", "1">>, <<"6", "5", "5", "3", "6">>}
      [] name = "power" -> {<<"On">>, <<"x">>, <<>>}
      [] name = "color_mode" -> {<<"0">>, <<"4">>, <<"x">>}
      [] name = "rgb" ->
             {<<"x">>, <<>>, <<"-", "1">>, <<"1", ".", "5">>,
              <<"1", "6", "7", "7", "7", "2", "1", "6">>}

\* Location values that are no IPv4 socket address behind yeelight://.
LocNoScheme == <<"http://", "127.0.0.1", ":", "8", "0">>

LocNoPort == <<"yeelight://", "127.0.0.1">>

\* The header maps callers pass: well-formed, with one required header
\* missing, with one parsed header holding a bad value, with a Location of
\* another shape.
FieldMaps ==
    {collect(hs) : hs \in GoodHeaders}
        \cup {collect(remove_header(hs, Required[i])) :
                  hs \in GoodHeaders, i \in DOMAIN Required}
        \cup UNION {{collect(put_header(hs, name, v)) : hs \in GoodHeaders, v \in BadValues(name)} :
                        name \in Parsed}
        \cup {collect(put_header(hs, "Location", loc)) :
                  hs \in GoodHeaders, loc \in {Loc6, LocNoScheme, LocNoPort}}

NextFields ==
    \/ FromFields(FieldMaps)

SpecFields == Init /\ [][NextFields]_vars

(***************************************************************************)
(* Toggling records advertised with either power.                          *)
(***************************************************************************)
ToggleAdverts ==
    SessionAdverts
        \cup {collect(put_header(AdvertHeaders("0x4", SupportAll, Loc1), "power", <<"off">>))}

NextToggle ==
    \/ FromFields(ToggleAdverts)
    \/ Open
    \/ Toggle(PlainEnvs)

SpecToggle == Init /\ [][NextToggle]_vars

(***************************************************************************)
(* Records advertised with values at and past the ends of the shadow's     *)
(* ranges, and the commands that set those fields.                         *)
(***************************************************************************)
\* Header values that parse as the header's type, at the ends of the range
\* the data model gives the field and one past it.
EdgeValues ==
    {<<"hue", <<"3", "5", "9">>>>, <<"hue", <<"3", "6", "0">>>>,
     <<"sat", <<"0">>>>, <<"sat", <<"1", "0", "1">>>>,
     <<"bright", <<"0">>>>, <<"bright", <<"1", "0", "1">>>>}

RangeAdverts ==
    SessionAdverts
        \cup {collect(put_header(AdvertHeaders("0x5", SupportAll, Loc1), e[1], e[2])) :
                  e \in EdgeValues}

NextRanges ==
    \/ FromFields(RangeAdverts)
    \/ Open
    \/ SetBright(BrightArgs, PlainEnvs)
    \/ SetHsv(HsvArgs, PlainEnvs)

SpecRanges == Init /\ [][NextRanges]_vars

(***************************************************************************)
(* The value types applied to inputs of every shape.                       *)
(***************************************************************************)
\* Colour levels: the ends of a byte, their neighbours, the middle.
RgbLevels == {0, 1, 127, 128, 254, 255}

\* The number encode(R, G, B) of the protocol, written out.
encode(r, g, b) == r * 65536 + g * 256 + b

\* Texts of decimal integers in 0..16777215.
RgbInRange ==
    {to_string(encode(r, g, b)) : r \in RgbLevels, g \in RgbLevels, b \in RgbLevels}
        \cup {<<"0", "0", "7">>, <<"+", "5">>}

\* Texts of integers above 16777215 (the last two are u32::MAX and the
\* number after it), of negative numbers, and texts that are no integer.
RgbOutOfRange ==
    {to_string(16777216), to_string(16777217), to_string(2147483647),
     <<"4", "2", "9", "4", "9", "6", "7", "2", "9", "5">>,
     <<"4", "2", "9", "4", "9", "6", "7", "2", "9", "6">>,
     <<"-", "1">>, <<"-", "1", "6", "7", "7", "7", "2", "1", "5">>,
     <<"1", ".", "5">>, <<"x">>, <<>>, <<" ", "5">>, <<"ff">>, <<"1", "e", "3">>}

RgbTexts == RgbInRange \cup RgbOutOfRange

\* The largest duration of 2^64-1 whole milliseconds or less is
\* 18446744073709551 s 615.999999 ms; its seconds as limbs.
TopSecs == <<42991, 19398, 35127, 65>>

MaxSecs == <<U16MAX, U16MAX, U16MAX, U16MAX>>

\* Durations callers pass: around 30 ms, ordinary ones, around 2^64-1 ms,
\* and Duration::MAX.
Durations ==
    {from_millis(0), from_millis(29), Duration(limbs(0), 29999999), from_millis(30),
     Duration(limbs(0), 30000001), from_millis(500), from_millis(65536000),
     Duration(TopSecs, 614000000), Duration(TopSecs, 615000000),
     Duration(TopSecs, 615000001), Duration(TopSecs, 615999999),
     Duration(TopSecs, 616000000), Duration(<<42992, 19398, 35127, 65>>, 0),
     Duration(MaxSecs, 999999999)}

\* A caller parses a text as an Rgb and, if that yields one, asks its number.
RgbFromStr ==
    /\ lpc = "ready"
    /\ \E s \in RgbTexts :
           LET r == Rgb_from_str(s)
           IN  call' = [op |-> "Rgb::from_str", args |-> <<s>>, result |-> r,
                        num |-> IF r.tag = "Ok" THEN Some(get_num(r.val)) ELSE None]
    /\ UNCHANGED <<light, stream, lpc, ncalls, tcp, findVars>>

\* A caller builds a transition with Transition::smooth and, if that yields
\* one, asks its value and text.
Smooth ==
    /\ lpc = "ready"
    /\ \E d \in Durations :
           LET r == Transition_smooth(d)
           IN  call' = [op |-> "Transition::smooth", args |-> <<d>>, result |-> r,
                        value |-> IF r # None THEN Some(Transition_value(r[1])) ELSE None,
                        text |-> IF r # None THEN Some(Transition_text(r[1])) ELSE None]
    /\ UNCHANGED <<light, stream, lpc, ncalls, tcp, findVars>>

\* A caller builds the sudden transition and asks its value and text.
SuddenValue ==
    /\ lpc = "ready"
    /\ call' = [op |-> "Transition::sudden", args |-> <<>>,
                result |-> Some(Transition_sudden),
                value |-> Some(Transition_value(Transition_sudden)),
                text |-> Some(Transition_text(Transition_sudden))]
    /\ UNCHANGED <<light, stream, lpc, ncalls, tcp, findVars>>

NextValues ==
    \/ RgbFromStr
    \/ Smooth
    \/ SuddenValue

SpecValues == Init /\ [][NextValues]_vars

(***************************************************************************)
(* Properties.                                                             *)
(***************************************************************************)
Commands == {"set_ct_abx", "set_rgb", "set_bright", "set_hsv", "set_power", "toggle"}

IsCommand == call.op \in Commands

\* The shadow fields of a record.
Shadow(l) == <<l.power, l.bright, l.color_mode, l.ct, l.rgb, l.hue, l.sat>>

IsErr(res, kind) == res.tag = "Err" /\ res.err.kind = kind

\* C1: a command invoked on a record (here: one with an open session) whose
\* support set lacks the command's method name returns MethodNotSupported
\* naming the method and writes nothing to the session, whatever its
\* arguments.
C1_UnsupportedRejected ==
    (IsCommand /\ call.op \notin call.before.support /\ call.before.read # None)
        => /\ call.result = Err(MethodNotSupported(call.op))
           /\ call.wrote = <<>>

\* C2: when a command returns an error of any kind, every shadow field has
\* the value it had before the call, also after earlier commands.
C2_ErrorKeepsShadow ==
    (IsCommand /\ call.result.tag = "Err") => Shadow(light[1]) = Shadow(call.before)

\* C2 witness: a second command fails with ChangeFailed after a first one
\* changed the brightness from the advertised 40 to 100.
C2_Witness ==
    /\ IsCommand
    /\ ncalls = 2
    /\ IsErr(call.result, "ChangeFailed")
    /\ light[1].bright = 100

\* C3: when a command returns success, the shadow field it governs equals
\* the argument passed; after toggle, power is the opposite of what it was.
C3_SuccessSetsShadow ==
    (IsCommand /\ call.result.tag = "Ok")
        => /\ call.op = "set_ct_abx" => light[1].ct = call.args[1]
           /\ call.op = "set_rgb" => light[1].rgb = call.args[1]
           /\ call.op = "set_bright" => light[1].bright = call.args[1]
           /\ call.op = "set_hsv" =>
                  light[1].hue = call.args[1] /\ light[1].sat = call.args[2]
           /\ call.op = "set_power" => light[1].power = call.args[1]
           /\ call.op = "toggle" =>
                  /\ call.before.power = "On" => light[1].power = "Off"
                  /\ call.before.power = "Off" => light[1].power = "On"

\* C3 witness: set_hsv(359, 100) succeeded on a record advertised with hue 4.
C3_Witness ==
    /\ call.op = "set_hsv"
    /\ call.result.tag = "Ok"
    /\ call.args[1] = 359
    /\ call.args[2] = 100
    /\ call.before.hue = 4

Supported == call.op \in call.before.support

\* C4: on a record that supports the method, set_ct_abx fails with
\* InvalidValue for ct exactly when the temperature is outside 2700..6500,
\* set_bright with InvalidValue for bright exactly when the brightness is
\* outside 1..100, set_hsv with InvalidValue exactly when the hue is outside
\* 0..359 or the saturation outside 0..100; such a failure writes nothing,
\* and a value in range (the ends included) is dispatched: with an open
\* session and working I/O, one request is written.
C4_RangeValidation ==
    (IsCommand /\ Supported)
        => /\ call.op = "set_ct_abx" =>
                  (/\ IsErr(call.result, "InvalidValue")
                   /\ call.result.err.field_name = <<"ct">>)
                      <=> (call.args[1] < 2700 \/ call.args[1] > 6500)
           /\ call.op = "set_bright" =>
                  (/\ IsErr(call.result, "InvalidValue")
                   /\ call.result.err.field_name = <<"bright">>)
                      <=> (call.args[1] < 1 \/ call.args[1] > 100)
           /\ call.op = "set_hsv" =>
                  IsErr(call.result, "InvalidValue")
                      <=> (call.args[1] < 0 \/ call.args[1] > 359
                           \/ call.args[2] < 0 \/ call.args[2] > 100)
           /\ IsErr(call.result, "InvalidValue") => call.wrote = <<>>
           /\ (/\ call.op \in {"set_ct_abx", "set_bright", "set_hsv"}
               /\ ~IsErr(call.result, "InvalidValue")
               /\ call.before.read # None
               /\ call.x.io = "ok") => Len(call.wrote) = 1

\* C4 witness: set_ct_abx(2699) fails with InvalidValue after set_ct_abx(6500)
\* was accepted and changed the advertised 3300.
C4_Witness ==
    /\ call.op = "set_ct_abx"
    /\ call.args[1] = 2699
    /\ IsErr(call.result, "InvalidValue")
    /\ light[1].ct = 6500

\* The call's request reached the bulb over a live connection, and the bulb
\* ran its script for it.
Answered ==
    /\ IsCommand
    /\ call.wrote # <<>>
    /\ call.x.script # <<>>
    /\ (call.pending = <<>> \/ call.pending[Len(call.pending)].kind = "line")

TheReply == call.x.script[Len(call.x.script)]

EndsWith(s, t) ==
    Len(t) <= Len(s) /\ SubSeq(s, Len(s) - Len(t) + 1, Len(s)) = t

\* C5: when the bulb answers a dispatched request with a reply line that
\* echoes the request id and carries an error object, the command returns
\* ChangeFailed whose message contains the reply's "message":"..." text, and
\* the shadow is as it was before the call.
C5_ErrorReplyFails ==
    (Answered /\ TheReply = ReplyErr(call.x.id))
        => /\ IsErr(call.result, "ChangeFailed")
           /\ contains(call.result.err.message,
                       <<MSGKEY, "client quota exceeded", "\"">>)
           /\ Shadow(light[1]) = Shadow(call.before)

\* C6: notifications the bulb emits between a request and its reply are never
\* taken as the reply: when dispatch returns (with success or ChangeFailed),
\* the last line it has read is the line that echoes the request id as its id.
C6_ReadsUpToReply ==
    (Answered /\ (call.result.tag = "Ok" \/ IsErr(call.result, "ChangeFailed")))
        => \/ EndsWith(call.buf, ReplyOk(call.x.id).text)
           \/ EndsWith(call.buf, ReplyErr(call.x.id).text)

Returned == fpc = "returned" /\ found # None

\* C7: whatever advertisements arrive during one find_lights call, repeated
\* or not and in any order, the ids of the returned records are pairwise
\* distinct (and so are those of the collector while the call runs).
C7_DistinctIds ==
    /\ \A a, b \in lights : a.id = b.id => a = b
    /\ Returned =>
           \A i, j \in DOMAIN found[1] : found[1][i].id = found[1][j].id => i = j

\* C7 witness: the call returned two records after hearing the device 0x1 at
\* two locations and the device 0x2.
C7_Witness ==
    /\ Returned
    /\ Len(found[1]) = 2
    /\ \E i, j \in DOMAIN heard :
           i < j /\ heard[i].dgram = "A@1" /\ heard[j].dgram = "A@2"

\* The advertisements of this call whose connection was opened.
Dialed == {k \in DOMAIN heard : heard[k].dial = <<"ok", "ok">>}

\* C8: every record find_lights returns has both halves of a TCP session,
\* opened (successfully) to the record's own location; an advertisement whose
\* connect failed contributes no record: there are as many records as
\* advertisements whose session was opened.
C8_ReturnedHaveSession ==
    Returned =>
        /\ \A i \in DOMAIN found[1] :
               LET l == found[1][i]
               IN  /\ l.read # None
                   /\ l.write # None
                   /\ l.read[1].peer = l.location
                   /\ l.write[1].peer = l.location
                   /\ l.read[1].serial = l.write[1].serial
                   /\ l.read[1].serial \in DOMAIN tcp
                   /\ tcp[l.read[1].serial] = [peer |-> l.location, ok |-> TRUE]
        /\ Len(found[1]) = Cardinality(Dialed)

\* C8 witness: the call returned a record, and the connection to another
\* advertised device had been refused.
C8_Witness ==
    /\ Returned
    /\ Len(found[1]) = 1
    /\ \E k \in DOMAIN heard :
           heard[k].dgram \in WellFormed /\ heard[k].dial = <<"ConnectionRefused", "ok">>

\* C9: find_lights never aborts because of a received datagram: whatever has
\* been received, the call is polling or has returned.
C9_DatagramsNeverAbort ==
    heard # <<>> => fpc \in {"polling", "returned"}

\* C10: if sending the probe fails, find_lights does not abort: a call whose
\* probe was not sent is polling or has returned.
C10_SendFailureSwallowed ==
    Len(probes) < nfinds => fpc \in {"polling", "returned"}

\* C11: find_lights always eventually returns: whatever the timeout and
\* whatever datagrams arrive, a call that is polling leads to the call having
\* returned, given that the clock advances.
C11_FindReturns == (fpc = "polling") ~> (fpc = "returned")

\* The header map passed is base with the header name left out.
Without(base, name) ==
    /\ call.op = "from_fields"
    /\ call.args[1] = collect(remove_header(base, name))

\* C12: building a record from a well-formed header map with exactly one
\* required header removed fails with FieldNotFound whose field_name is that
\* header's name.
C12_MissingHeaderNamed ==
    \A base \in GoodHeaders : \A i \in DOMAIN Required :
        Without(base, Required[i]) => call.result = Err(FieldNotFound(<<Required[i]>>))

\* The header map passed is base with the header name holding value.
With(base, name, value) ==
    /\ call.op = "from_fields"
    /\ call.args[1] = collect(put_header(base, name, value))

\* C13: when every required header is present and exactly one of fw_ver,
\* power, bright, color_mode, ct, rgb, hue, sat holds a value that does not
\* parse, building the record fails with ParseFieldFailed whose field_name is
\* the name of that header.
C13_BadValueNamed ==
    \A base \in GoodHeaders : \A name \in Parsed : \A v \in BadValues(name) :
        With(base, name, v)
            => /\ IsErr(call.result, "ParseFieldFailed")
               /\ call.result.err.field_name = <<name>>

\* C14: when the Location is yeelight://ADDR with ADDR a valid socket address
\* that is not IPv4, building the record returns a parse-failure error: it
\* neither panics nor yields a record.
C14_NonIpv4IsParseFailure ==
    \A base \in GoodHeaders :
        With(base, "Location", Loc6) => IsErr(call.result, "ParseFieldFailed")

ParsedRgb == call.op = "Rgb::from_str"

\* C15: for all R, G, B in 0..255 (here: the levels of RgbLevels), parsing the
\* decimal text of 65536*R + 256*G + B yields the Rgb with red = R, green = G,
\* blue = B, and get_num of that Rgb is the same number again.
C15_RgbRoundTrip ==
    \A r \in RgbLevels, g \in RgbLevels, b \in RgbLevels :
        (ParsedRgb /\ call.args[1] = to_string(r * 65536 + g * 256 + b))
            => /\ call.result = Ok([red |-> r, green |-> g, blue |-> b])
               /\ call.num = Some(r * 65536 + g * 256 + b)

\* C15 witness: the text of 65536*255 + 256*128 + 1 has been parsed into an
\* Rgb with three different levels.
C15_Witness ==
    /\ ParsedRgb
    /\ call.args[1] = <<"1", "6", "7", "4", "4", "4", "4", "9">>
    /\ call.result.tag = "Ok"
    /\ call.result.val.green = 128

\* C16: Rgb parsing accepts exactly the decimal integers in 0..16777215:
\* every such text parses, and a text of a larger number, of a negative
\* number or of no integer fails with ParseFieldFailed for rgb.
C16_RgbRange ==
    ParsedRgb
        => /\ call.args[1] \in RgbInRange => call.result.tag = "Ok"
           /\ call.args[1] \in RgbOutOfRange =>
                  /\ IsErr(call.result, "ParseFieldFailed")
                  /\ call.result.err.field_name = <<"rgb">>

\* C16 witness: the text of 16777216, one past the largest value, has been
\* refused.
C16_Witness ==
    /\ ParsedRgb
    /\ call.args[1] = <<"1", "6", "7", "7", "7", "2", "1", "6">>
    /\ call.result.tag = "Err"

BuiltSmooth == call.op = "Transition::smooth"

\* 2^64-1 ms exactly, and 2^64 ms
TopMillis == Duration(TopSecs, 615000000)

OverTop == Duration(TopSecs, 616000000)

\* For every Smooth transition built, value() is the duration's whole
\* milliseconds, none of them lost to the width of u64; for Sudden it is 0.
ValueIsMillis ==
    /\ (BuiltSmooth /\ call.result # None)
           => /\ call.result[1].kind = "Smooth"
              /\ call.value[1] \o <<0>> = as_millis(call.args[1])
    /\ call.op = "Transition::sudden" => call.value = Some(<<0, 0, 0, 0>>)

\* C17, as amended: Transition::smooth(d) yields a Smooth transition exactly
\* when d is at least 30 ms and the whole milliseconds of d are at most
\* 2^64-1 (that is, d is less than 2^64 ms), and yields nothing otherwise;
\* value() is the whole milliseconds without wrap-around, and 0 for Sudden.
C17_SmoothWindow ==
    /\ BuiltSmooth =>
           (call.result # None
                <=> /\ ~Duration_lt(call.args[1], from_millis(30))
                    /\ Duration_lt(call.args[1], OverTop))
    /\ ValueIsMillis

\* C17 witness: a duration of 2^64-1 ms and 999999 ns has become a Smooth
\* transition whose value is 2^64-1.
C17_Witness ==
    /\ BuiltSmooth
    /\ call.args[1] = Duration(TopSecs, 615999999)
    /\ call.result # None
    /\ call.value = Some(<<65535, 65535, 65535, 65535>>)

\* C17, as stated: Transition::smooth(d) yields a Smooth transition exactly
\* when d is at least 30 ms and at most 2^64-1 ms, and yields nothing
\* otherwise; value() is the whole milliseconds without wrap-around, and 0
\* for Sudden.
C17_SmoothWindowAsStated ==
    /\ BuiltSmooth =>
           (call.result # None
                <=> /\ ~Duration_lt(call.args[1], from_millis(30))
                    /\ ~Duration_lt(TopMillis, call.args[1]))
    /\ ValueIsMillis

ToggledOk(c) == c.op = "toggle" /\ c.result.tag = "Ok"

\* C18: flip never returns its input and is an involution: a successful
\* toggle leaves the shadow power different from what it was, and two
\* successful toggles in a row leave it equal to its value before the first.
C18_FlipInvolution ==
    /\ [](ToggledOk(call) =>
              /\ light[1].power \in PowerStatus
              /\ light[1].power # call.before.power)
    /\ [][(ToggledOk(call) /\ ToggledOk(call') /\ ncalls' = ncalls + 1)
              => light'[1].power = call.before.power]_vars

\* C18 witness: the record advertised with power off has been toggled twice
\* with success and its shadow power is Off again.
C18_Witness ==
    /\ ToggledOk(call)
    /\ ncalls = 2
    /\ light[1].id = <<"0x4">>
    /\ call.before.power = "On"
    /\ light[1].power = "Off"

\* The record a well-formed datagram is parsed into.
Parsed1(name) == Candidates[name].val

\* C19: two records compare equal exactly when their ids are equal, whatever
\* their other fields and their session (here: the records the collector
\* holds, with a session, against the records just parsed, without one and
\* perhaps from another location), and equal records have equal hashes; so
\* the collector holds at most one record per id, and an advertisement is
\* passed over only when a record with its id is held.
C19_EqualityById ==
    /\ \A a \in lights : \A name \in WellFormed :
           /\ eq(a, Parsed1(name)) <=> a.id = Parsed1(name).id
           /\ eq(a, Parsed1(name)) => hash(a) = hash(Parsed1(name))
    /\ \A a \in lights : \A b \in lights :
           /\ eq(a, b) <=> a.id = b.id
           /\ eq(a, b) => a = b
    /\ \A k \in DOMAIN heard :
           (heard[k].dgram \in WellFormed /\ heard[k].dial = <<>>)
               => \E a \in lights : a.id = Parsed1(heard[k].dgram).id

\* C19 witness: the collector holds the record of device 0x1 at its first
\* location, with its session, and the advertisement of the same device
\* from another location has been passed over.
C19_Witness ==
    /\ \E a \in lights :
           /\ a.id = <<"0x1">>
           /\ a.read # None
           /\ a.location # Parsed1("A@2").location
    /\ \E k \in DOMAIN heard : heard[k].dgram = "A@2" /\ heard[k].dial = <<>>

\* C20: a request is dispatched only on a session that is Ready: whenever a
\* command has written a request or read from the session, the record had
\* both halves of a session that was opened with success to its location; a
\* command called on a record built from fields and never opened writes and
\* reads nothing.
C20_SendOnlyWhenReady ==
    IsCommand =>
        /\ (call.wrote # <<>> \/ call.reads > 0) =>
               /\ call.before.read # None
               /\ call.before.write # None
               /\ call.before.read[1].serial \in DOMAIN tcp
               /\ tcp[call.before.read[1].serial]
                      = [peer |-> call.before.location, ok |-> TRUE]
        /\ call.before.read = None => (call.wrote = <<>> /\ call.reads = 0)

\* C20 witness: a command that passed its checks was called on a record
\* built from fields and never opened; it panicked in send_req.
C20_Witness ==
    /\ IsCommand
    /\ call.before.read = None
    /\ tcp = <<>>
    /\ call.result.tag = "Panic"

\* The lines a bulb sends in reply to a request.
Replies == {ReplyOk(id) : id \in ReqIds} \cup {ReplyErr(id) : id \in ReqIds}

HasReply(s) == \E k \in DOMAIN s : s[k] \in Replies

\* C21: replies are consumed in send order: once a command has returned, no
\* reply remains unread in the stream, and so no command that writes a
\* request finds the reply to an earlier request waiting for it.
C21_RepliesInSendOrder ==
    IsCommand =>
        /\ call.result.tag \in {"Ok", "Err"} => ~HasReply(stream)
        /\ call.wrote # <<>> => ~HasReply(call.pending)

\* C22: the matched reply line alone decides: when dispatch has read up to
\* the bulb's reply, and the reply echoes the request id and carries a
\* result, the command succeeds and the shadow is updated, whatever the
\* notification lines read before it in the same dispatch say.
C22_ReplyLineDecides ==
    (/\ Answered
     /\ TheReply = ReplyOk(call.x.id)
     /\ EndsWith(call.buf, ReplyOk(call.x.id).text))
        => /\ call.result = Ok(Unit)
           /\ call.op = "set_bright" => light[1].bright = call.args[1]
           /\ call.op = "toggle" => light[1].power = flip(call.before.power)

\* The advertisements of this call, heard before the k-th, that carry the id
\* of the k-th and whose session was opened.
OpenedBefore(k) ==
    {j \in Dialed : j < k /\ heard[j].dgram \in WellFormed
                          /\ Parsed1(heard[j].dgram).id = Parsed1(heard[k].dgram).id}

\* C23: within one find_lights call, an advertisement whose id is already in
\* the collector is discarded before any TCP connection is attempted, so for
\* each id in the result exactly one session was opened during the call.
C23_DedupBeforeConnect ==
    /\ \A k \in DOMAIN heard :
           (heard[k].dgram \in WellFormed /\ OpenedBefore(k) # {})
               => heard[k].dial = <<>>
    /\ Returned =>
           \A i \in DOMAIN found[1] :
               Cardinality({k \in Dialed : Parsed1(heard[k].dgram).id = found[1][i].id}) = 1

\* C23 witness: the call returned the record of device 0x1 after hearing it
\* three times; the first connection was refused, the second opened the
\* session, and the third advertisement was discarded.
C23_Witness ==
    /\ Returned
    /\ Len(heard) = 3
    /\ \A k \in DOMAIN heard :
           heard[k].dgram \in WellFormed /\ Parsed1(heard[k].dgram).id = <<"0x1">>
    /\ heard[1].dial = <<"ConnectionRefused", "ok">>
    /\ heard[2].dial = <<"ok", "ok">>
    /\ heard[3].dial = <<>>
    /\ Len(found[1]) = 1

\* The arguments of the call pass the command's range validation.
ArgsInRange ==
    /\ call.op = "set_ct_abx" => call.args[1] \in 2700..6500
    /\ call.op = "set_bright" => call.args[1] \in 1..100
    /\ call.op = "set_hsv" => (call.args[1] \in 0..359 /\ call.args[2] \in 0..100)

\* C24: on an open session, a command that passes its support check and its
\* range validation writes exactly one request line, ended by \r\n (and
\* holding no other line end), and reads only after the line has been written
\* and flushed; a command that fails the check or the validation writes
\* nothing and reads nothing.
C24_OneRequestLine ==
    (IsCommand /\ call.before.read # None)
        => /\ (Supported /\ ArgsInRange /\ call.x.io = "ok")
                  => /\ Len(call.wrote) = 1
                     /\ {k \in DOMAIN call.wrote[1] : call.wrote[1][k] = CRLF}
                            = {Len(call.wrote[1])}
                     /\ call.reads > 0
           /\ call.x.io # "ok" => call.reads = 0
           /\ ~(Supported /\ ArgsInRange) => (call.wrote = <<>> /\ call.reads = 0)

\* The fields of a record no command is meant to touch.
Identity(l) == <<l.id, l.location, l.model, l.fw_ver, l.support, l.name>>

ShadowFields == {"power", "bright", "color_mode", "ct", "rgb", "hue", "sat"}

\* The shadow fields each command is listed to change.
Governed(op) ==
    CASE op = "set_ct_abx" -> {"ct"}
      [] op = "set_rgb" -> {"rgb"}
      [] op = "set_bright" -> {"bright"}
      [] op = "set_hsv" -> {"hue", "sat"}
      [] op \in {"set_power", "toggle"} -> {"power"}

\* C25: a successful command changes only the shadow fields listed for it
\* and leaves every other shadow field as it was; no command, successful or
\* not, changes id, location, model, fw_ver, support or name.
C25_FrameOfCommands ==
    IsCommand =>
        /\ Identity(light[1]) = Identity(call.before)
        /\ call.result.tag = "Ok" =>
               \A f \in ShadowFields \ Governed(call.op) : light[1][f] = call.before[f]

\* C25 witness: a second command, set_rgb, succeeded and changed rgb, and the
\* brightness the first command had set to 100 is still there.
C25_Witness ==
    /\ call.op = "set_rgb"
    /\ call.result.tag = "Ok"
    /\ ncalls = 2
    /\ light[1].rgb # call.before.rgb
    /\ light[1].bright = 100
    /\ call.before.bright = 100

\* C26: in every reachable state of a record, as built from an advertisement
\* and after any sequence of commands, hue is in 0..359, sat in 0..100 and
\* bright in 0..100.
C26_ShadowInRange ==
    light # None =>
        /\ light[1].hue \in 0..359
        /\ light[1].sat \in 0..100
        /\ light[1].bright \in 0..100

\* The connections attempted during the running call are the last ones of
\* tcp, as many as advertisements were dialed.
DialsOfCall == Cardinality({k \in DOMAIN heard : heard[k].dial # <<>>})

\* C27: the collector is per call: whatever earlier calls on the client
\* returned, every advertisement of a call whose id had no session opened
\* before it in the same call is dialed, and when its session opens the call
\* returns its record with a session opened during this call.
C27_CollectorPerCall ==
    /\ \A k \in DOMAIN heard :
           (heard[k].dgram \in WellFormed /\ OpenedBefore(k) = {})
               => heard[k].dial # <<>>
    /\ Returned =>
           \A k \in Dialed :
               \E i \in DOMAIN found[1] :
                   /\ found[1][i].id = Parsed1(heard[k].dgram).id
                   /\ found[1][i].read # None
                   /\ found[1][i].read[1].serial > Len(tcp) - DialsOfCall

\* C27 witness: a second call returned the record of device 0x1, which an
\* earlier call had returned, with the session of the second connection.
C27_Witness ==
    /\ Returned
    /\ nfinds = 2
    /\ <<"0x1">> \in earlier
    /\ \E i \in DOMAIN found[1] :
           /\ found[1][i].id = <<"0x1">>
           /\ found[1][i].read # None
           /\ found[1][i].read[1].serial = 2
    /\ Len(tcp) = 2

\* C28: each find_lights call sends the literal probe exactly once, to the
\* multicast address, before its first receive attempt, and sends no further
\* probe however long it polls: every datagram sent is the probe to
\* 239.255.255.250:1982, and a call that is polling or has returned, or has
\* received a datagram, has sent one probe, as has each call before it.
C28_ProbeOnce ==
    /\ \A i \in DOMAIN probes :
           /\ probes[i].msg = <<"M-SEARCH * HTTP/1.1", "\r\n", "HOST: 239.255.255.250:1982",
                                "\r\n", "MAN: \"ssdp:discover\"", "\r\n", "ST: wifi_bulb">>
           /\ probes[i].to = [ip |-> "239.255.255.250", port |-> 1982]
    /\ Len(probes) <= nfinds
    /\ (fpc \in {"polling", "returned"} \/ heard # <<>>) => Len(probes) = nfinds

\* C28 witness: a second call has polled until its clock advanced, received
\* two datagrams and returned; two probes were sent in all.
C28_Witness ==
    /\ Returned
    /\ nfinds = 2
    /\ elapsed = 1
    /\ Len(heard) = 2
    /\ Len(probes) = 2

\* C29: session open is idempotent: init on a record whose session is
\* attached returns success, leaves the record, both halves included, as it
\* was, and attempts no connection: the session's connection is still the
\* last one attempted.
C29_OpenIdempotent ==
    (call.op = "init" /\ call.before.read # None)
        => /\ call.result = Ok(Unit)
           /\ light[1] = call.before
           /\ light[1].read[1].serial = Len(tcp)
           /\ light[1].write[1].serial = Len(tcp)

\* C29 witness: init was called on a record with a session while the bulb
\* refused connections; it returned Ok and the one connection of the run is
\* the session's.
C29_Witness ==
    /\ call.op = "init"
    /\ call.before.read # None
    /\ call.args = <<"ConnectionRefused", "ok">>
    /\ call.result = Ok(Unit)
    /\ Len(tcp) = 1

\* C30: a record's read half is present exactly when its write half is:
\* both are absent when the record is built from fields and after init
\* failed (in connect or in try_clone), both are present after init
\* succeeded, and no command changes either.
C30_HalvesTogether ==
    light # None =>
        /\ light[1].read = None <=> light[1].write = None
        /\ call.op = "from_fields" => (light[1].read = None /\ light[1].write = None)
        /\ (call.op = "init" /\ call.result.tag = "Err") =>
               (light[1].read = None /\ light[1].write = None)
        /\ (call.op = "init" /\ call.result.tag = "Ok") =>
               (light[1].read # None /\ light[1].write # None)
        /\ IsCommand => (light[1].read = call.before.read
                         /\ light[1].write = call.before.write)

\* C30 witness: init connected and failed to duplicate the handle; the
\* record has neither half.
C30_Witness ==
    /\ call.op = "init"
    /\ call.args = <<"ok", "EMFILE">>
    /\ call.result.tag = "Err"
    /\ light[1].read = None
    /\ light[1].write = None
    /\ Len(tcp) = 1

\* The bulb closed the connection on the call's request before it sent any
\* line that contains the request id.
ClosedBeforeReply ==
    /\ Answered
    /\ TheReply = Eof
    /\ \A k \in DOMAIN call.x.script :
           ~contains(call.x.script[k].text, to_string(call.x.id))
    /\ ~contains(call.buf, to_string(call.x.id))

\* C31: command dispatch terminates when the bulb closes the connection: a
\* call on whose request the peer closed the stream before any line with the
\* request id leads to the call having returned, with an error and the shadow
\* as it was.
C31_ReturnsOnClose ==
    ClosedBeforeReply
        ~> (/\ lpc = "ready"
            /\ IsCommand
            /\ call.result.tag = "Err"
            /\ Shadow(light[1]) = Shadow(call.before))

\* The advertisements of this call, heard before the k-th, that carry the id
\* of the k-th and whose session did not open.
FailedBefore(k) ==
    {j \in DOMAIN heard : /\ j < k
                          /\ heard[j].dgram \in WellFormed
                          /\ Parsed1(heard[j].dgram).id = Parsed1(heard[k].dgram).id
                          /\ heard[j].dial \notin {<<>>, <<"ok", "ok">>}}

\* The ids the collector holds.
Held == {a.id : a \in lights}

\* C32: a failed connect does not mark the id as seen: an id none of whose
\* advertisements had its session opened is not in the collector, and an
\* advertisement that follows only failed attempts for its id in the same
\* call is dialed again; when that connection opens, the record is in the
\* collector and is returned.
C32_FailedConnectNotSeen ==
    /\ \A k \in DOMAIN heard :
           (heard[k].dgram \in WellFormed /\ heard[k].dial \notin {<<>>, <<"ok", "ok">>}
                /\ OpenedBefore(k) = {}
                /\ \A j \in Dialed : Parsed1(heard[j].dgram).id # Parsed1(heard[k].dgram).id)
               => Parsed1(heard[k].dgram).id \notin Held
    /\ \A k \in DOMAIN heard :
           (heard[k].dgram \in WellFormed /\ FailedBefore(k) # {} /\ OpenedBefore(k) = {})
               => /\ heard[k].dial # <<>>
                  /\ heard[k].dial = <<"ok", "ok">> =>
                         /\ Parsed1(heard[k].dgram).id \in Held
                         /\ Returned => Parsed1(heard[k].dgram).id \in ids(found)

\* C32 witness: the connection for the first advertisement of device 0x1 was
\* refused, a later advertisement of the device from its other location was
\* connected, and the call returned that record.
C32_Witness ==
    /\ Returned
    /\ Len(heard) = 2
    /\ heard[1] = [dgram |-> "A@1", dial |-> <<"ConnectionRefused", "ok">>]
    /\ heard[2] = [dgram |-> "A@2", dial |-> <<"ok", "ok">>]
    /\ Len(found[1]) = 1
    /\ found[1][1].id = <<"0x1">>
    /\ found[1][1].location = Parsed1("A@2").location

====
